---- MODULE Spec2Model ----
(***************************************************************************)
(* Racing-data CRUD backend: three tables (stages, stables, results) in a  *)
(* relational store, the request handlers of app/routers and the           *)
(* data-access functions of app/services.                                  *)
(*                                                                         *)
(* A column value is a tuple: <<v>> is the value v, <<>> is SQL NULL.      *)
(* The primary key "id" is a plain integer (it is never NULL).             *)
(***************************************************************************)
EXTENDS Integers, Sequences, FiniteSets, TLC

VARIABLES
    stages,      \* table "stages": a set of rows
    stables,     \* table "stables": a set of rows
    results,     \* table "results": a set of rows
    stage_seq,   \* last value handed out by the sequence behind stages.id
    stable_seq,  \* last value handed out by the sequence behind stables.id
    result_seq,  \* last value handed out by the sequence behind results.id
    assigned,    \* history: identifiers ever returned by a creation, per table
    returned,    \* history: the Stage and Stable records returned by a creation
                 \* whose row no later update or delete has written
    resp,        \* the outcome of the last request
    inflight     \* requests that have begun and not yet ended: what each has
                 \* read so far in its own session

vars == <<stages, stables, results, stage_seq, stable_seq, result_seq, assigned,
          returned, resp, inflight>>

(***************************************************************************)
(* Bounds of the exploration.                                              *)
(***************************************************************************)
MaxStageId == 2
MaxStableId == 1
MaxResultId == 2

NULL == <<>>
Val(v) == <<v>>

(***************************************************************************)
(* Bounded value domains of the requests.                                  *)
(***************************************************************************)
StageNames == {"Monza", "Spa"}
Countries == {"Italy"}
Dates == {"2024-05-01"}
LapLengths == {579}
Attendances == {40000}
StableNames == {"Red Bull"}
Motors == {"Honda"}
Drivers == {"Max"}
RaceTimes == {90, 95}
Thresholds == {89, 90, 95}
LapCounts == {52, 53}
UpdateLaps == {53}
PitStops == {2}
Positions == {1}

\* identifiers a request may carry; the sequences start at 1, so 0 names no row
StageIds == 0..MaxStageId
StableIds == 0..MaxStableId
ResultIds == 0..MaxResultId

(***************************************************************************)
(* Wire schemas (app/schemas): every declared field without a default is   *)
(* required and typed, so a validated creation payload carries a non-NULL  *)
(* value for it.                                                           *)
(***************************************************************************)
StageCreate ==
    [name : {Val(n) : n \in StageNames},
     country : {Val(c) : c \in Countries},
     date : {Val(d) : d \in Dates},
     attendance : {Val(a) : a \in Attendances},
     lap_length : {Val(l) : l \in LapLengths}]

StableCreate ==
    [name : {Val(n) : n \in StableNames},
     country : {Val(c) : c \in Countries},
     motor : {Val(m) : m \in Motors} \cup {NULL},
     tire : {NULL}]

ResultCreate ==
    [driver_name : {Val(d) : d \in Drivers},
     race_time : {Val(t) : t \in RaceTimes},
     laps : {Val(l) : l \in LapCounts},
     position : {Val(p) : p \in Positions},
     pit_stops : {Val(p) : p \in PitStops},
     stable_id : {Val(i) : i \in StableIds},
     stage_id : {Val(i) : i \in StageIds}]

(***************************************************************************)
(* Rows.  WithId(id, payload) is the ORM object built from the payload's   *)
(* dict, once the insert has filled in the primary key.                    *)
(***************************************************************************)
WithId(id, payload) ==
    [f \in DOMAIN payload \cup {"id"} |-> IF f = "id" THEN id ELSE payload[f]]

Range(seq) == {seq[i] : i \in 1..Len(seq)}

\* a select whose where clause is lost
RowById_any(table, id) == table

RowById(table, id) == {r \in table : r.id = id}

scalar_one_or_none(rows) == IF rows = {} THEN <<>> ELSE <<CHOOSE r \in rows : TRUE>>

(***************************************************************************)
(* Column constraints declared by the ORM models.                          *)
(***************************************************************************)
StageColumnsOk(r) ==
    /\ r.name # NULL
    /\ r.country # NULL
    /\ r.date # NULL
    /\ r.lap_length # NULL

StableColumnsOk(r) ==
    /\ r.name # NULL
    /\ r.country # NULL

ResultColumnsOk(r) ==
    /\ r.stage_id # NULL
    /\ r.stable_id # NULL
    /\ r.driver_name # NULL
    /\ r.race_time # NULL
    /\ r.laps # NULL

\* a store that does not enforce the foreign keys
ResultForeignKeysOk_unenforced(r, stageTable, stableTable) == TRUE

\* ForeignKey('stages.id') and ForeignKey('stables.id') on results
ResultForeignKeysOk(r, stageTable, stableTable) ==
    /\ r.stage_id = NULL \/ \E s \in stageTable : Val(s.id) = r.stage_id
    /\ r.stable_id = NULL \/ \E s \in stableTable : Val(s.id) = r.stable_id

TypeOK ==
    /\ stage_seq \in 0..MaxStageId
    /\ stable_seq \in 0..MaxStableId
    /\ result_seq \in 0..MaxResultId
    /\ \A r \in stages : r.id \in 1..stage_seq
    /\ \A r \in stables : r.id \in 1..stable_seq
    /\ \A r \in results : r.id \in 1..result_seq

NoResp == [op |-> "none", args |-> <<>>, status |-> 0, ret |-> "none", rows |-> <<>>, n |-> 0]

\* op and args echo the request (its scalar parameters); status is the HTTP
\* status of a router handler, ret the kind of value a handler or a data-access
\* function returned, rows the rows it returned, n the count it reported
Reply(op, args, status, ret, rows, n) ==
    [op |-> op, args |-> args, status |-> status, ret |-> ret, rows |-> rows, n |-> n]

(***************************************************************************)
(* Response models (response_model=StageRead / StableRead / ResultRead):   *)
(* the returned rows are validated against the read schema; a NULL in a    *)
(* field the schema requires fails the validation and the request ends in  *)
(* a server error.                                                         *)
(***************************************************************************)
StageReadRequired == {"name", "country", "date", "attendance", "lap_length"}
StableReadRequired == {"name", "country"}
ResultReadRequired ==
    {"driver_name", "race_time", "laps", "position", "pit_stops", "stable_id", "stage_id"}

Respond(op, args, status, ret, rows, required) ==
    IF \A i \in 1..Len(rows) : \A f \in required : rows[i][f] # NULL
    THEN Reply(op, args, status, ret, rows, 0)
    ELSE Reply(op, args, 500, "ResponseValidationError", <<>>, 0)

\* no request is between two of its round trips to the store
NoneInFlight == [create |-> <<>>, delete |-> <<>>, laps |-> <<>>]

Init ==
    /\ stages = {}
    /\ stables = {}
    /\ results = {}
    /\ stage_seq = 0
    /\ stable_seq = 0
    /\ result_seq = 0
    /\ assigned = [stages |-> {}, stables |-> {}, results |-> {}]
    /\ returned = [stages |-> {}, stables |-> {}]
    /\ resp = NoResp
    /\ inflight = NoneInFlight

(***************************************************************************)
(* Partial-update payloads: the schemas StageUpdate, StableUpdate and      *)
(* ResultUpdate are imported by app/services but defined nowhere.  A       *)
(* payload is modelled as the values of the updatable attributes (a value  *)
(* or NULL) together with fields_set, the fields the client supplied; a    *)
(* field outside fields_set holds its default, NULL.                       *)
(***************************************************************************)
Payloads(fields, values) ==
    {p \in [fields_set : SUBSET fields, vals : values] :
        \A f \in fields : f \notin p.fields_set => p.vals[f] = NULL}

StageUpdate ==
    Payloads({"name", "attendance"},
             [name : {Val(n) : n \in StageNames} \cup {NULL},
              attendance : {Val(a) : a \in Attendances} \cup {NULL}])

StableUpdate ==
    Payloads({"name", "motor"},
             [name : {Val(n) : n \in StableNames} \cup {NULL},
              motor : {Val(m) : m \in Motors} \cup {NULL}])

ResultUpdate ==
    Payloads({"stage_id", "laps"},
             [stage_id : {Val(i) : i \in StageIds} \cup {NULL},
              laps : {Val(l) : l \in UpdateLaps} \cup {NULL}])

\* data.dict() without exclude_unset: every updatable field is written
ApplyPatch_all(row, data) ==
    [f \in DOMAIN row |-> IF f \in DOMAIN data.vals THEN data.vals[f] ELSE row[f]]

\* for key, value in data.dict(exclude_unset=True).items(): setattr(row, key, value)
ApplyPatch(row, data) ==
    [f \in DOMAIN row |-> IF f \in data.fields_set THEN data.vals[f] ELSE row[f]]

(***************************************************************************)
(* The store at commit: primary keys are unique, NOT NULL columns hold a   *)
(* value and a non-NULL foreign key names an existing row.  A commit that  *)
(* breaks a constraint raises IntegrityError (a SQLAlchemyError).          *)
(***************************************************************************)
PrimaryKeyOk(table) == \A r1, r2 \in table : r1.id = r2.id => r1 = r2

\* a commit that enforces no NOT NULL and no foreign key constraint
CommitOk_unconstrained(st, sb, rs) ==
    PrimaryKeyOk(st) /\ PrimaryKeyOk(sb) /\ PrimaryKeyOk(rs)

CommitOk(st, sb, rs) ==
    /\ PrimaryKeyOk(st) /\ PrimaryKeyOk(sb) /\ PrimaryKeyOk(rs)
    /\ \A r \in st : StageColumnsOk(r)
    /\ \A r \in sb : StableColumnsOk(r)
    /\ \A r \in rs : ResultColumnsOk(r) /\ ResultForeignKeysOk(r, st, sb)

\* relationship("Result", back_populates=...) without a delete cascade: when
\* the parent is deleted the unit of work sets the children's foreign key to NULL
Deassociate(rs, col, id) ==
    {IF r[col] = Val(id) THEN [r EXCEPT ![col] = NULL] ELSE r : r \in rs}

(***************************************************************************)
(* Stage handlers.                                                         *)
(***************************************************************************)
IdsOf(table) == {r.id : r \in table}

\* an identifier computed from the stored rows instead of a sequence
NextStageId_max_plus_one ==
    IF stages = {} THEN 1 ELSE (CHOOSE i \in IdsOf(stages) : \A j \in IdsOf(stages) : j <= i) + 1

\* the identifier the insert assigns: nextval of the table's sequence
NextStageId == stage_seq + 1

\* POST /stages/
create_stage(stage) ==
    /\ UNCHANGED inflight
    /\ /\ stage_seq < MaxStageId
       /\ LET id == NextStageId
              new_stage == WithId(id, stage)
              refreshed == scalar_one_or_none(RowById(stages', id))
          IN /\ stage_seq' = stage_seq + 1
             /\ stages' = stages \cup {new_stage}
             /\ assigned' = [assigned EXCEPT !.stages = @ \cup {id}]
             /\ resp' = Respond("create_stage", <<>>, 201, "row", refreshed, StageReadRequired)
             /\ returned' = [returned EXCEPT !.stages = @ \cup Range(resp'.rows)]
       /\ UNCHANGED <<stables, results, stable_seq, result_seq>>

\* GET /stages/{stage_id}
get_stage(stage_id) ==
    /\ UNCHANGED inflight
    /\ /\ LET stage == scalar_one_or_none(RowById(stages, stage_id))
          IN IF stage = <<>>
             THEN resp' = Reply("get_stage", <<stage_id>>, 404, "error", <<>>, 0)
             ELSE resp' = Respond("get_stage", <<stage_id>>, 200, "row", stage, StageReadRequired)
       /\ UNCHANGED <<stages, stables, results, stage_seq, stable_seq, result_seq, assigned, returned>>

\* services.update_stage
update_stage(stage_id, stage_data) ==
    /\ UNCHANGED inflight
    /\ LET existing_stage == scalar_one_or_none(RowById(stages, stage_id))
       IN IF existing_stage # <<>>
          THEN LET updated == ApplyPatch(existing_stage[1], stage_data)
                   st == (stages \ {existing_stage[1]}) \cup {updated}
               IN IF CommitOk(st, stables, results)
                  THEN /\ stages' = st
                       /\ resp' = Reply("update_stage", <<stage_id>>, 0, "row",
                                        scalar_one_or_none(RowById(st, stage_id)), 0)
                       /\ returned' = [returned EXCEPT !.stages = {r \in @ : r.id # stage_id}]
                       /\ UNCHANGED <<stables, results, stage_seq, stable_seq, result_seq, assigned>>
                  ELSE \* except SQLAlchemyError: rollback, return None
                       /\ resp' = Reply("update_stage", <<stage_id>>, 0, "None", <<>>, 0)
                       /\ UNCHANGED <<stages, stables, results, stage_seq, stable_seq,
                                      result_seq, assigned, returned>>
          ELSE /\ resp' = Reply("update_stage", <<stage_id>>, 0, "None", <<>>, 0)
               /\ UNCHANGED <<stages, stables, results, stage_seq, stable_seq,
                              result_seq, assigned, returned>>

\* services.delete_stage
delete_stage(stage_id) ==
    /\ UNCHANGED inflight
    /\ LET existing_stage == scalar_one_or_none(RowById(stages, stage_id))
       IN IF existing_stage # <<>>
          THEN LET st == stages \ {existing_stage[1]}
                   rs == Deassociate(results, "stage_id", 0)
               IN IF CommitOk(st, stables, rs)
                  THEN /\ stages' = st
                       /\ results' = rs
                       /\ resp' = Reply("delete_stage", <<stage_id>>, 0, "True", <<>>, 0)
                       /\ returned' = [returned EXCEPT !.stages = {r \in @ : r.id # stage_id}]
                       /\ UNCHANGED <<stables, stage_seq, stable_seq, result_seq, assigned>>
                  ELSE \* except SQLAlchemyError: rollback, return False
                       /\ resp' = Reply("delete_stage", <<stage_id>>, 0, "False", <<>>, 0)
                       /\ UNCHANGED <<stages, stables, results, stage_seq, stable_seq,
                                      result_seq, assigned, returned>>
          ELSE /\ resp' = Reply("delete_stage", <<stage_id>>, 0, "False", <<>>, 0)
               /\ UNCHANGED <<stages, stables, results, stage_seq, stable_seq,
                              result_seq, assigned, returned>>

(***************************************************************************)
(* Stable handlers.                                                        *)
(***************************************************************************)
NextStableId == stable_seq + 1

\* POST /stables/
create_stable(stable) ==
    /\ UNCHANGED inflight
    /\ /\ stable_seq < MaxStableId
       /\ LET id == NextStableId
              new_stable == WithId(id, stable)
              refreshed == scalar_one_or_none(RowById(stables', id))
          IN /\ stable_seq' = stable_seq + 1
             /\ stables' = stables \cup {new_stable}
             /\ assigned' = [assigned EXCEPT !.stables = @ \cup {id}]
             /\ resp' = Respond("create_stable", <<>>, 200, "row", refreshed, StableReadRequired)
             /\ returned' = [returned EXCEPT !.stables = @ \cup Range(resp'.rows)]
       /\ UNCHANGED <<stages, results, stage_seq, result_seq>>

\* GET /stables/{stable_id}
get_stable(stable_id) ==
    /\ UNCHANGED inflight
    /\ /\ LET stable == scalar_one_or_none(RowById(stables, stable_id))
          IN IF stable = <<>>
             THEN resp' = Reply("get_stable", <<stable_id>>, 404, "error", <<>>, 0)
             ELSE resp' = Respond("get_stable", <<stable_id>>, 200, "row", stable, StableReadRequired)
       /\ UNCHANGED <<stages, stables, results, stage_seq, stable_seq, result_seq, assigned, returned>>

\* services.update_stable
update_stable(stable_id, stable_data) ==
    /\ UNCHANGED inflight
    /\ LET existing_stable == scalar_one_or_none(RowById(stables, stable_id))
       IN IF existing_stable # <<>>
          THEN LET updated == ApplyPatch(existing_stable[1], stable_data)
                   sb == (stables \ {existing_stable[1]}) \cup {updated}
               IN IF CommitOk(stages, sb, results)
                  THEN /\ stables' = sb
                       /\ resp' = Reply("update_stable", <<stable_id>>, 0, "row",
                                        scalar_one_or_none(RowById(sb, stable_id)), 0)
                       /\ returned' = [returned EXCEPT !.stables = {r \in @ : r.id # stable_id}]
                       /\ UNCHANGED <<stages, results, stage_seq, stable_seq, result_seq, assigned>>
                  ELSE /\ resp' = Reply("update_stable", <<stable_id>>, 0, "None", <<>>, 0)
                       /\ UNCHANGED <<stages, stables, results, stage_seq, stable_seq,
                                      result_seq, assigned, returned>>
          ELSE /\ resp' = Reply("update_stable", <<stable_id>>, 0, "None", <<>>, 0)
               /\ UNCHANGED <<stages, stables, results, stage_seq, stable_seq,
                              result_seq, assigned, returned>>

\* services.delete_stable
delete_stable(stable_id) ==
    /\ UNCHANGED inflight
    /\ LET existing_stable == scalar_one_or_none(RowById(stables, stable_id))
       IN IF existing_stable # <<>>
          THEN LET sb == stables \ {existing_stable[1]}
                   rs == Deassociate(results, "stable_id", 0)
               IN IF CommitOk(stages, sb, rs)
                  THEN /\ stables' = sb
                       /\ results' = rs
                       /\ resp' = Reply("delete_stable", <<stable_id>>, 0, "True", <<>>, 0)
                       /\ returned' = [returned EXCEPT !.stables = {r \in @ : r.id # stable_id}]
                       /\ UNCHANGED <<stages, stage_seq, stable_seq, result_seq, assigned>>
                  ELSE /\ resp' = Reply("delete_stable", <<stable_id>>, 0, "False", <<>>, 0)
                       /\ UNCHANGED <<stages, stables, results, stage_seq, stable_seq,
                                      result_seq, assigned, returned>>
          ELSE /\ resp' = Reply("delete_stable", <<stable_id>>, 0, "False", <<>>, 0)
               /\ UNCHANGED <<stages, stables, results, stage_seq, stable_seq,
                              result_seq, assigned, returned>>

(***************************************************************************)
(* Result handlers.                                                        *)
(***************************************************************************)
NextResultId == result_seq + 1

\* an existence check that only asks whether the table has a row
Referenced_any(table, ref) == table

\* select(Stable).where(Stable.id == result.stable_id) / select(Stage).where(...)
Referenced(table, ref) == {r \in table : Val(r.id) = ref}

\* POST /results/
create_result(result) ==
    /\ UNCHANGED inflight
    /\ IF scalar_one_or_none(Referenced(stables, result.stable_id)) = <<>>
       THEN /\ resp' = Reply("create_result", <<>>, 400, "Invalid stable_id", <<>>, 0)
            /\ UNCHANGED <<stages, stables, results, stage_seq, stable_seq, result_seq, assigned, returned>>
       ELSE IF scalar_one_or_none(Referenced(stages, result.stage_id)) = <<>>
       THEN /\ resp' = Reply("create_result", <<>>, 400, "Invalid stage_id", <<>>, 0)
            /\ UNCHANGED <<stages, stables, results, stage_seq, stable_seq, result_seq, assigned, returned>>
       ELSE /\ result_seq < MaxResultId
            /\ LET id == NextResultId
                   new_result == WithId(id, result)
                   rs == results \cup {new_result}
               IN /\ result_seq' = result_seq + 1
                  /\ IF CommitOk(stages, stables, rs)
                     THEN /\ results' = rs
                          /\ assigned' = [assigned EXCEPT !.results = @ \cup {id}]
                          /\ resp' = Respond("create_result", <<>>, 200, "row",
                                             scalar_one_or_none(RowById(rs, id)),
                                             ResultReadRequired)
                     ELSE \* IntegrityError is not caught: the request fails, the
                          \* session closes without a commit
                          /\ resp' = Reply("create_result", <<>>, 500, "IntegrityError", <<>>, 0)
                          /\ UNCHANGED <<results, assigned>>
            /\ UNCHANGED <<stages, stables, stage_seq, stable_seq, returned>>

\* GET /results/{result_id}
get_result(result_id) ==
    /\ UNCHANGED inflight
    /\ /\ LET result_obj == scalar_one_or_none(RowById(results, result_id))
          IN IF result_obj = <<>>
             THEN resp' = Reply("get_result", <<result_id>>, 404, "error", <<>>, 0)
             ELSE resp' = Respond("get_result", <<result_id>>, 200, "row", result_obj, ResultReadRequired)
       /\ UNCHANGED <<stages, stables, results, stage_seq, stable_seq, result_seq, assigned, returned>>

\* services.update_result
update_result(result_id, result_data) ==
    /\ UNCHANGED inflight
    /\ LET existing_result == scalar_one_or_none(RowById(results, result_id))
       IN IF existing_result # <<>>
          THEN LET updated == ApplyPatch(existing_result[1], result_data)
                   rs == (results \ {existing_result[1]}) \cup {updated}
               IN IF CommitOk(stages, stables, rs)
                  THEN /\ results' = rs
                       /\ resp' = Reply("update_result", <<result_id>>, 0, "row",
                                        scalar_one_or_none(RowById(rs, result_id)), 0)
                       /\ UNCHANGED <<stages, stables, stage_seq, stable_seq, result_seq, assigned, returned>>
                  ELSE /\ resp' = Reply("update_result", <<result_id>>, 0, "None", <<>>, 0)
                       /\ UNCHANGED <<stages, stables, results, stage_seq, stable_seq,
                                      result_seq, assigned, returned>>
          ELSE /\ resp' = Reply("update_result", <<result_id>>, 0, "None", <<>>, 0)
               /\ UNCHANGED <<stages, stables, results, stage_seq, stable_seq,
                              result_seq, assigned, returned>>

\* a delete that reports success without looking at what the select found
delete_result_unchecked(result_id) ==
    /\ results' = results \ RowById(results, result_id)
    /\ resp' = Reply("delete_result", <<result_id>>, 0, "True", <<>>, 0)
    /\ UNCHANGED <<stages, stables, stage_seq, stable_seq, result_seq, assigned, returned,
                   inflight>>

\* services.delete_result
delete_result(result_id) ==
    /\ UNCHANGED inflight
    /\ LET existing_result == scalar_one_or_none(RowById(results, result_id))
       IN IF existing_result # <<>>
          THEN /\ results' = results \ {existing_result[1]}
               /\ resp' = Reply("delete_result", <<result_id>>, 0, "True", <<>>, 0)
               /\ UNCHANGED <<stages, stables, stage_seq, stable_seq, result_seq, assigned, returned>>
          ELSE /\ resp' = Reply("delete_result", <<result_id>>, 0, "False", <<>>, 0)
               /\ UNCHANGED <<stages, stables, results, stage_seq, stable_seq,
                              result_seq, assigned, returned>>

(***************************************************************************)
(* The data-access functions when the store may report a failure.  fault   *)
(* says that the store reports a failure that is no constraint violation   *)
(* (a lost connection, a serialization failure) during the call; it        *)
(* reaches the function as a SQLAlchemyError, as a violated constraint     *)
(* does.                                                                   *)
(***************************************************************************)
\* an except branch that keeps what the session had pending
rollback_keeps_pending(committed, pending) == pending

\* await db.rollback(): the session's pending changes are discarded, the table
\* is as last committed
rollback(committed, pending) == committed

\* services.create_stage
services_create_stage(stage_data, fault) ==
    /\ stage_seq < MaxStageId
    /\ LET id == NextStageId
           st == stages \cup {WithId(id, stage_data)}
       IN IF ~ fault /\ CommitOk(st, stables, results)
          THEN /\ stages' = st
               /\ stage_seq' = id
               /\ assigned' = [assigned EXCEPT !.stages = @ \cup {id}]
               /\ resp' = Reply("services_create_stage", <<>>, 0, "row",
                                scalar_one_or_none(RowById(st, id)), 0)
               /\ returned' = [returned EXCEPT !.stages = @ \cup RowById(st, id)]
          ELSE \* except SQLAlchemyError: rollback, return None; the sequence
               \* keeps the value the insert drew, if the insert was sent
               /\ stages' = rollback(stages, st)
               /\ stage_seq' \in {stage_seq, id}
               /\ resp' = Reply("services_create_stage", <<>>, 0, "None", <<>>, 0)
               /\ UNCHANGED <<assigned, returned>>
    /\ UNCHANGED <<stables, results, stable_seq, result_seq, inflight>>

\* services.create_result: no check of the references before the insert
services_create_result(result_data, fault) ==
    /\ result_seq < MaxResultId
    /\ LET id == NextResultId
           rs == results \cup {WithId(id, result_data)}
       IN IF ~ fault /\ CommitOk(stages, stables, rs)
          THEN /\ results' = rs
               /\ result_seq' = id
               /\ assigned' = [assigned EXCEPT !.results = @ \cup {id}]
               /\ resp' = Reply("services_create_result", <<>>, 0, "row",
                                scalar_one_or_none(RowById(rs, id)), 0)
          ELSE /\ results' = rollback(results, rs)
               /\ result_seq' \in {result_seq, id}
               /\ resp' = Reply("services_create_result", <<>>, 0, "None", <<>>, 0)
               /\ UNCHANGED assigned
    /\ UNCHANGED <<stages, stables, stage_seq, stable_seq, returned, inflight>>

\* services.update_stage
services_update_stage(stage_id, stage_data, fault) ==
    IF fault
    THEN /\ stages' = rollback(stages, {ApplyPatch(r, stage_data) : r \in RowById(stages, stage_id)}
                                          \cup (stages \ RowById(stages, stage_id)))
         /\ resp' = Reply("update_stage", <<stage_id>>, 0, "None", <<>>, 0)
         /\ UNCHANGED <<stables, results, stage_seq, stable_seq, result_seq, assigned,
                        returned, inflight>>
    ELSE update_stage(stage_id, stage_data)

\* services.update_result
services_update_result(result_id, result_data, fault) ==
    IF fault
    THEN /\ results' = rollback(results, {ApplyPatch(r, result_data) : r \in RowById(results, result_id)}
                                            \cup (results \ RowById(results, result_id)))
         /\ resp' = Reply("update_result", <<result_id>>, 0, "None", <<>>, 0)
         /\ UNCHANGED <<stages, stables, stage_seq, stable_seq, result_seq, assigned,
                        returned, inflight>>
    ELSE update_result(result_id, result_data)

\* services.delete_stage
services_delete_stage(stage_id, fault) ==
    IF fault
    THEN /\ stages' = rollback(stages, stages \ RowById(stages, stage_id))
         /\ resp' = Reply("delete_stage", <<stage_id>>, 0, "False", <<>>, 0)
         /\ UNCHANGED <<stables, results, stage_seq, stable_seq, result_seq, assigned,
                        returned, inflight>>
    ELSE delete_stage(stage_id)

\* services.delete_result
services_delete_result(result_id, fault) ==
    IF fault
    THEN /\ results' = rollback(results, results \ RowById(results, result_id))
         /\ resp' = Reply("delete_result", <<result_id>>, 0, "False", <<>>, 0)
         /\ UNCHANGED <<stages, stables, stage_seq, stable_seq, result_seq, assigned,
                        returned, inflight>>
    ELSE delete_result(result_id)

(***************************************************************************)
(* Request bodies.  A body is the fields the client sent (fields_set) with *)
(* their values; the framework validates it against the handler's schema   *)
(* before the handler runs and answers 422 when the validation fails.      *)
(***************************************************************************)
\* the body that carries the fields of a payload but those in omitted
Omit(payload, omitted) ==
    [fields_set |-> (DOMAIN payload) \ omitted,
     vals |-> [f \in DOMAIN payload |-> IF f \in omitted THEN NULL ELSE payload[f]]]

\* a field declared with a type and no default is required
StageCreateRequired == {"name", "country", "date", "attendance", "lap_length"}
ResultCreateRequired ==
    {"driver_name", "race_time", "laps", "position", "pit_stops", "stable_id", "stage_id"}

Validates(body, required) ==
    \A f \in required : f \in body.fields_set /\ body.vals[f] # NULL

\* POST /stages/ with a JSON body
post_stages(body) ==
    IF Validates(body, StageCreateRequired)
    THEN create_stage(body.vals)
    ELSE /\ resp' = Reply("create_stage", <<>>, 422, "RequestValidationError", <<>>, 0)
         /\ UNCHANGED <<stages, stables, results, stage_seq, stable_seq, result_seq,
                        assigned, returned, inflight>>

\* POST /results/ with a JSON body
post_results(body) ==
    IF Validates(body, ResultCreateRequired)
    THEN create_result(body.vals)
    ELSE /\ resp' = Reply("create_result", <<>>, 422, "RequestValidationError", <<>>, 0)
         /\ UNCHANGED <<stages, stables, results, stage_seq, stable_seq, result_seq,
                        assigned, returned, inflight>>

(***************************************************************************)
(* Result queries.  A select without ORDER BY, and the ties of an ORDER    *)
(* BY, come back in an order the store chooses.                            *)
(***************************************************************************)
Orderings(rows) ==
    {seq \in [1..Cardinality(rows) -> rows] :
        \A i, j \in 1..Cardinality(rows) : i # j => seq[i] # seq[j]}

\* a filter that joins its two conditions with OR
FilterWhere_or(r, stage_id, stable_id) ==
    r.stage_id = Val(stage_id) \/ r.stable_id = Val(stable_id)

\* GET /results/filter/?stage_id=&stable_id=
FilterWhere(r, stage_id, stable_id) ==
    r.stage_id = Val(stage_id) /\ r.stable_id = Val(stable_id)

get_filtered_results(stage_id, stable_id) ==
    /\ UNCHANGED inflight
    /\ /\ \E seq \in Orderings({r \in results : FilterWhere(r, stage_id, stable_id)}) :
             resp' = Respond("get_filtered_results", <<stage_id, stable_id>>, 200, "rows", seq, ResultReadRequired)
       /\ UNCHANGED <<stages, stables, results, stage_seq, stable_seq, result_seq, assigned, returned>>

\* a threshold comparison that includes the threshold itself
LapsWhere_inclusive(r, race_time_threshold) ==
    r.race_time # NULL /\ r.race_time[1] >= race_time_threshold

\* PUT /results/update_laps/?race_time_threshold=&new_laps=
LapsWhere(r, race_time_threshold) ==
    r.race_time # NULL /\ r.race_time[1] > race_time_threshold

\* a count of every stored Result
UpdatedCount_all(results_to_update) == Cardinality(results)

\* len(results_to_update) in the message
UpdatedCount(results_to_update) == Cardinality(results_to_update)

update_laps(race_time_threshold, new_laps) ==
    /\ UNCHANGED inflight
    /\ LET results_to_update == {r \in results : LapsWhere(r, race_time_threshold)}
           rs == {IF r \in results_to_update THEN [r EXCEPT !.laps = Val(new_laps)] ELSE r
                  : r \in results}
       IN /\ results' = rs
          /\ resp' = Reply("update_laps", <<race_time_threshold, new_laps>>, 200, "message", <<>>, UpdatedCount(results_to_update))
          /\ UNCHANGED <<stages, stables, stage_seq, stable_seq, result_seq, assigned, returned>>

\* str.lower() on the characters an order token is drawn from
Chars == {"a", "s", "c", "d", "e", "A", "S", "C", "D", "E"}

LowerChar(ch) ==
    CASE ch = "A" -> "a"
      [] ch = "S" -> "s"
      [] ch = "C" -> "c"
      [] ch = "D" -> "d"
      [] ch = "E" -> "e"
      [] OTHER -> ch

\* a comparison of the token as given
lower_identity(str) == str

lower(str) == [i \in 1..Len(str) |-> LowerChar(str[i])]

\* an ORDER BY whose directions are exchanged
OrderBy_exchanged(seq, direction) ==
    \A i, j \in 1..Len(seq) :
        i < j => IF direction = "desc"
                 THEN seq[i].race_time[1] <= seq[j].race_time[1]
                 ELSE seq[i].race_time[1] >= seq[j].race_time[1]

OrderBy(seq, direction) ==
    \A i, j \in 1..Len(seq) :
        i < j => IF direction = "asc"
                 THEN seq[i].race_time[1] <= seq[j].race_time[1]
                 ELSE seq[i].race_time[1] >= seq[j].race_time[1]

\* GET /results/sorted/?order=
get_sorted_results(order) ==
    /\ UNCHANGED inflight
    /\ /\ IF lower(order) = <<"a", "s", "c">>
          THEN \E seq \in {q \in Orderings(results) : OrderBy(q, "asc")} :
                  resp' = Respond("get_sorted_results", order, 200, "rows", seq, ResultReadRequired)
          ELSE IF lower(order) = <<"d", "e", "s", "c">>
          THEN \E seq \in {q \in Orderings(results) : OrderBy(q, "desc")} :
                  resp' = Respond("get_sorted_results", order, 200, "rows", seq, ResultReadRequired)
          ELSE resp' = Reply("get_sorted_results", order, 400, "Invalid order parameter", <<>>, 0)
       /\ UNCHANGED <<stages, stables, results, stage_seq, stable_seq, result_seq, assigned, returned>>

\* a join whose ON conditions are lost
JoinOn_cross(r, stage, stable) == TRUE

\* .join(Stage, Result.stage_id == Stage.id).join(Stable, Result.stable_id == Stable.id)
JoinOn(r, stage, stable) == r.stage_id = Val(stage.id) /\ r.stable_id = Val(stable.id)

\* the dict built for one row of the join
Details(r, stage, stable) ==
    [id |-> r.id, driver_name |-> r.driver_name, race_time |-> r.race_time,
     stage_name |-> stage.name, stable_name |-> stable.name]

\* GET /results/join/
get_results_with_details ==
    /\ UNCHANGED inflight
    /\ LET joined == {row \in results \X stages \X stables : JoinOn(row[1], row[2], row[3])}
       IN \E seq \in Orderings(joined) :
             resp' = Reply("get_results_with_details", <<>>, 200, "rows",
                           [i \in 1..Len(seq) |-> Details(seq[i][1], seq[i][2], seq[i][3])], 0)
    /\ UNCHANGED <<stages, stables, results, stage_seq, stable_seq, result_seq, assigned, returned>>

(***************************************************************************)
(* Aggregation.  avg over a float column is the sum of the group's values  *)
(* divided by their number; the quotient is kept exact, as the fraction    *)
(* num/den in lowest terms.                                                *)
(***************************************************************************)
RECURSIVE GCD(_, _)
GCD(a, b) == IF b = 0 THEN a ELSE GCD(b, a % b)

RECURSIVE SumRaceTime(_)
SumRaceTime(rows) ==
    IF rows = {} THEN 0
    ELSE LET r == CHOOSE x \in rows : TRUE
         IN r.race_time[1] + SumRaceTime(rows \ {r})

\* func.avg(Result.race_time) over one group; the avg of no row is NULL
avg(rows) ==
    IF rows = {} THEN NULL
    ELSE LET total == SumRaceTime(rows)
             count == Cardinality(rows)
             g == GCD(total, count)
         IN Val([num |-> total \div g, den |-> count \div g])

\* a grouping that starts from the stages table (a left join)
GroupBy_stages(rs) == {Val(s.id) : s \in stages}

\* .group_by(Result.stage_id): the distinct stage_id values among the rows
GroupBy(rs) == {r.stage_id : r \in rs}

\* GET /stages/group_by/
get_average_race_time_per_stage ==
    /\ UNCHANGED inflight
    /\ LET pairs == {[stage_id |-> g, avg_race_time |-> avg({r \in results : r.stage_id = g})]
                     : g \in GroupBy(results)}
       IN \E seq \in Orderings(pairs) :
             resp' = Reply("get_average_race_time_per_stage", <<>>, 200, "rows", seq, 0)
    /\ UNCHANGED <<stages, stables, results, stage_seq, stable_seq, result_seq, assigned, returned>>

(***************************************************************************)
(* Requests in flight.  Every request runs in its own session; each await  *)
(* on the session is one round trip to the store, and other requests may   *)
(* commit between two round trips.  A select reads what is committed when  *)
(* it runs; the store checks its constraints when a commit runs.           *)
(***************************************************************************)
\* POST /results/, first round trip: the stable check
create_result_check_stable(result) ==
    /\ inflight.create = <<>>
    /\ IF scalar_one_or_none(Referenced(stables, result.stable_id)) = <<>>
       THEN /\ resp' = Reply("create_result", <<>>, 400, "Invalid stable_id", <<>>, 0)
            /\ UNCHANGED inflight
       ELSE /\ inflight' = [inflight EXCEPT !.create = <<[pc |-> "stable_checked",
                                                          result |-> result]>>]
            /\ UNCHANGED resp
    /\ UNCHANGED <<stages, stables, results, stage_seq, stable_seq, result_seq, assigned, returned>>

\* POST /results/, second round trip: the stage check
create_result_check_stage ==
    /\ inflight.create # <<>>
    /\ inflight.create[1].pc = "stable_checked"
    /\ IF scalar_one_or_none(Referenced(stages, inflight.create[1].result.stage_id)) = <<>>
       THEN /\ resp' = Reply("create_result", <<>>, 400, "Invalid stage_id", <<>>, 0)
            /\ inflight' = [inflight EXCEPT !.create = <<>>]
       ELSE /\ inflight' = [inflight EXCEPT !.create[1].pc = "stage_checked"]
            /\ UNCHANGED resp
    /\ UNCHANGED <<stages, stables, results, stage_seq, stable_seq, result_seq, assigned, returned>>

\* POST /results/, last round trips: db.add, commit, refresh
create_result_commit ==
    /\ inflight.create # <<>>
    /\ inflight.create[1].pc = "stage_checked"
    /\ result_seq < MaxResultId
    /\ LET id == NextResultId
           rs == results \cup {WithId(id, inflight.create[1].result)}
       IN /\ result_seq' = result_seq + 1
          /\ IF CommitOk(stages, stables, rs)
             THEN /\ results' = rs
                  /\ assigned' = [assigned EXCEPT !.results = @ \cup {id}]
                  /\ resp' = Respond("create_result", <<>>, 200, "row",
                                     scalar_one_or_none(RowById(rs, id)),
                                     ResultReadRequired)
             ELSE \* IntegrityError is not caught: the request fails
                  /\ resp' = Reply("create_result", <<>>, 500, "IntegrityError", <<>>, 0)
                  /\ UNCHANGED <<results, assigned>>
    /\ inflight' = [inflight EXCEPT !.create = <<>>]
    /\ UNCHANGED <<stages, stables, stage_seq, stable_seq, returned>>

\* services.delete_stage, first round trip: the select
delete_stage_select(stage_id) ==
    /\ inflight.delete = <<>>
    /\ LET existing_stage == scalar_one_or_none(RowById(stages, stage_id))
       IN IF existing_stage # <<>>
          THEN /\ inflight' = [inflight EXCEPT !.delete = <<[table |-> "stages",
                                                             id |-> stage_id]>>]
               /\ UNCHANGED resp
          ELSE /\ resp' = Reply("delete_stage", <<stage_id>>, 0, "False", <<>>, 0)
               /\ UNCHANGED inflight
    /\ UNCHANGED <<stages, stables, results, stage_seq, stable_seq, result_seq, assigned, returned>>

\* services.delete_stage, db.delete and commit: the flush sets the stage_id of
\* the Stage's Results to NULL and deletes the Stage row
delete_stage_commit ==
    /\ inflight.delete # <<>>
    /\ inflight.delete[1].table = "stages"
    /\ LET stage_id == inflight.delete[1].id
           st == stages \ RowById(stages, stage_id)
           rs == Deassociate(results, "stage_id", stage_id)
       IN IF CommitOk(st, stables, rs)
          THEN /\ stages' = st
               /\ results' = rs
               /\ resp' = Reply("delete_stage", <<stage_id>>, 0, "True", <<>>, 0)
               /\ returned' = [returned EXCEPT !.stages = {r \in @ : r.id # stage_id}]
          ELSE \* except SQLAlchemyError: rollback, return False
               /\ resp' = Reply("delete_stage", <<stage_id>>, 0, "False", <<>>, 0)
               /\ UNCHANGED <<stages, results, returned>>
    /\ inflight' = [inflight EXCEPT !.delete = <<>>]
    /\ UNCHANGED <<stables, stage_seq, stable_seq, result_seq, assigned>>

\* services.delete_stable, first round trip: the select
delete_stable_select(stable_id) ==
    /\ inflight.delete = <<>>
    /\ LET existing_stable == scalar_one_or_none(RowById(stables, stable_id))
       IN IF existing_stable # <<>>
          THEN /\ inflight' = [inflight EXCEPT !.delete = <<[table |-> "stables",
                                                             id |-> stable_id]>>]
               /\ UNCHANGED resp
          ELSE /\ resp' = Reply("delete_stable", <<stable_id>>, 0, "False", <<>>, 0)
               /\ UNCHANGED inflight
    /\ UNCHANGED <<stages, stables, results, stage_seq, stable_seq, result_seq, assigned, returned>>

\* services.delete_stable, db.delete and commit
delete_stable_commit ==
    /\ inflight.delete # <<>>
    /\ inflight.delete[1].table = "stables"
    /\ LET stable_id == inflight.delete[1].id
           sb == stables \ RowById(stables, stable_id)
           rs == Deassociate(results, "stable_id", stable_id)
       IN IF CommitOk(stages, sb, rs)
          THEN /\ stables' = sb
               /\ results' = rs
               /\ resp' = Reply("delete_stable", <<stable_id>>, 0, "True", <<>>, 0)
               /\ returned' = [returned EXCEPT !.stables = {r \in @ : r.id # stable_id}]
          ELSE /\ resp' = Reply("delete_stable", <<stable_id>>, 0, "False", <<>>, 0)
               /\ UNCHANGED <<stables, results, returned>>
    /\ inflight' = [inflight EXCEPT !.delete = <<>>]
    /\ UNCHANGED <<stages, stage_seq, stable_seq, result_seq, assigned>>

\* a commit that writes every row its where clause matches when it runs
Dirty_requery(results_to_update, new_laps) ==
    {r \in results : LapsWhere(r, inflight.laps[1].race_time_threshold)}

\* the loaded objects whose laps the loop changed: the flush sends one UPDATE
\* by primary key for each of them, none for an object set to the value it had
Dirty(results_to_update, new_laps) ==
    {r \in results_to_update : r.laps # Val(new_laps)}

\* PUT /results/update_laps/, first round trip: the select
update_laps_select(race_time_threshold, new_laps) ==
    /\ inflight.laps = <<>>
    /\ inflight' = [inflight EXCEPT !.laps =
                       <<[race_time_threshold |-> race_time_threshold,
                          new_laps |-> new_laps,
                          results_to_update |->
                              {r \in results : LapsWhere(r, race_time_threshold)}]>>]
    /\ UNCHANGED <<stages, stables, results, stage_seq, stable_seq, result_seq, assigned,
                   returned, resp>>

\* PUT /results/update_laps/, the loop and the commit
update_laps_commit ==
    /\ inflight.laps # <<>>
    /\ LET results_to_update == inflight.laps[1].results_to_update
           new_laps == inflight.laps[1].new_laps
           ids == IdsOf(Dirty(results_to_update, new_laps))
       IN IF ids \subseteq IdsOf(results)
          THEN /\ results' = {IF r.id \in ids THEN [r EXCEPT !.laps = Val(new_laps)] ELSE r
                              : r \in results}
               /\ resp' = Reply("update_laps",
                                <<inflight.laps[1].race_time_threshold, new_laps>>,
                                200, "message", <<>>, UpdatedCount(results_to_update))
          ELSE \* an UPDATE matched no row: StaleDataError, not caught
               /\ resp' = Reply("update_laps",
                                <<inflight.laps[1].race_time_threshold, new_laps>>,
                                500, "StaleDataError", <<>>, 0)
               /\ UNCHANGED results
    /\ inflight' = [inflight EXCEPT !.laps = <<>>]
    /\ UNCHANGED <<stages, stables, stage_seq, stable_seq, result_seq, assigned, returned>>

(***************************************************************************)
(* Request environments.  Next issues every request; the other             *)
(* specifications issue the requests of one part of the interface.         *)
(***************************************************************************)
\* updates that rename a Stage, and updates that set or clear a Stable's motor
RenameStage == {p \in StageUpdate : p.fields_set = {"name"} /\ p.vals.name # NULL}
ChangeMotor == {p \in StableUpdate : p.fields_set = {"motor"}}
OneStage == {s \in StageCreate : s.name = Val("Monza")}
OneStable == {s \in StableCreate : s.motor = NULL}
CrudResults == {r \in ResultCreate : r.race_time = Val(90) /\ r.laps = Val(53)}
LapsResults == {r \in ResultCreate : r.stage_id = Val(1) /\ r.stable_id = Val(1)}
FilterResults == {r \in ResultCreate : r.race_time = Val(90) /\ r.laps = Val(53)}
SortedResults ==
    {r \in ResultCreate : r.stage_id = Val(1) /\ r.stable_id = Val(1) /\ r.laps = Val(53)}

OrderTokens ==
    [1..3 -> {"a", "s", "c", "A", "S", "C"}]
        \cup {o \in [1..4 -> Chars] : \A i \in 1..4 : LowerChar(o[i]) = <<"d", "e", "s", "c">>[i]}
        \cup {<<>>, <<"a", "s">>, <<"a", "s", "c", "e">>, <<"d", "e", "s">>,
              <<"d", "e", "c", "s">>, <<"D", "E", "S", "C", "C">>}

Next ==
    \/ \E stage \in StageCreate : create_stage(stage)
    \/ \E id \in StageIds : get_stage(id)
    \/ \E id \in StageIds, data \in StageUpdate : update_stage(id, data)
    \/ \E id \in StageIds : delete_stage(id)
    \/ \E stable \in StableCreate : create_stable(stable)
    \/ \E id \in StableIds : get_stable(id)
    \/ \E id \in StableIds, data \in StableUpdate : update_stable(id, data)
    \/ \E id \in StableIds : delete_stable(id)
    \/ \E result \in ResultCreate : create_result(result)
    \/ \E id \in ResultIds : get_result(id)
    \/ \E id \in ResultIds, data \in ResultUpdate : update_result(id, data)
    \/ \E id \in ResultIds : delete_result(id)
    \/ \E s \in StageIds, t \in StableIds : get_filtered_results(s, t)
    \/ \E t \in Thresholds, l \in LapCounts : update_laps(t, l)
    \/ \E order \in OrderTokens : get_sorted_results(order)
    \/ get_results_with_details
    \/ get_average_race_time_per_stage

Spec == Init /\ [][Next]_vars

\* Stage and Stable records: create, read, update, delete
NextEntities ==
    \/ \E stage \in StageCreate : create_stage(stage)
    \/ \E id \in StageIds : get_stage(id)
    \/ \E id \in StageIds, data \in RenameStage : update_stage(id, data)
    \/ \E id \in StageIds : delete_stage(id)
    \/ \E stable \in StableCreate : create_stable(stable)
    \/ \E id \in StableIds : get_stable(id)
    \/ \E id \in StableIds, data \in ChangeMotor : update_stable(id, data)
    \/ \E id \in StableIds : delete_stable(id)

SpecEntities == Init /\ [][NextEntities]_vars

\* Results and the rows they reference: create and delete
NextRefs ==
    \/ \E stage \in OneStage : create_stage(stage)
    \/ \E id \in StageIds : delete_stage(id)
    \/ \E stable \in OneStable : create_stable(stable)
    \/ \E id \in StableIds : delete_stable(id)
    \/ \E result \in CrudResults : create_result(result)
    \/ \E id \in ResultIds : delete_result(id)

SpecRefs == Init /\ [][NextRefs]_vars

\* partial updates of the three entities
NextUpdate ==
    \/ \E stage \in OneStage : create_stage(stage)
    \/ \E stable \in OneStable : create_stable(stable)
    \/ \E result \in CrudResults : create_result(result)
    \/ \E id \in StageIds, data \in StageUpdate : update_stage(id, data)
    \/ \E id \in StableIds, data \in StableUpdate : update_stable(id, data)
    \/ \E id \in ResultIds, data \in ResultUpdate : update_result(id, data)

SpecUpdate == Init /\ [][NextUpdate]_vars

\* the bulk laps update
NextLaps ==
    \/ \E stage \in OneStage : create_stage(stage)
    \/ \E stable \in OneStable : create_stable(stable)
    \/ \E result \in LapsResults : create_result(result)
    \/ \E t \in Thresholds, l \in LapCounts : update_laps(t, l)

SpecLaps == Init /\ [][NextLaps]_vars

\* filtering by stage and stable
NextFilter ==
    \/ \E stage \in OneStage : create_stage(stage)
    \/ \E stable \in OneStable : create_stable(stable)
    \/ \E result \in FilterResults : create_result(result)
    \/ \E s \in StageIds, t \in StableIds : get_filtered_results(s, t)

SpecFilter == Init /\ [][NextFilter]_vars

\* sorting by race time
NextSorted ==
    \/ \E stage \in OneStage : create_stage(stage)
    \/ \E stable \in OneStable : create_stable(stable)
    \/ \E result \in SortedResults : create_result(result)
    \/ \E order \in OrderTokens : get_sorted_results(order)

SpecSorted == Init /\ [][NextSorted]_vars

\* the join of Results with their Stage and Stable
NextJoin ==
    \/ \E stage \in StageCreate : create_stage(stage)
    \/ \E stable \in OneStable : create_stable(stable)
    \/ \E result \in FilterResults : create_result(result)
    \/ get_results_with_details

SpecJoin == Init /\ [][NextJoin]_vars

AverageResults == {r \in ResultCreate : r.laps = Val(53) /\ r.stable_id = Val(1)}

\* the average race time per stage
NextAverage ==
    \/ \E stage \in StageCreate : create_stage(stage)
    \/ \E stable \in OneStable : create_stable(stable)
    \/ \E result \in AverageResults : create_result(result)
    \/ get_average_race_time_per_stage

SpecAverage == Init /\ [][NextAverage]_vars

\* updates of one field: a Stage's name to NULL (which breaks NOT NULL), a
\* Result's stage reference (NULL breaks NOT NULL, a value without a Stage
\* breaks the foreign key)
NameUpdates == {p \in StageUpdate : p.fields_set = {"name"} /\ p.vals.name = NULL}
ServiceResults ==
    {r \in CrudResults : r.stable_id = Val(1) /\ r.stage_id \in {Val(0), Val(1)}}
StageRefUpdates ==
    {p \in ResultUpdate : p.fields_set = {"stage_id"} /\ p.vals.stage_id \in {NULL, Val(0), Val(2)}}

\* the data-access functions of Stage and Result under store failures
NextServices ==
    \/ \E stable \in OneStable : create_stable(stable)
    \/ \E stage \in OneStage, fault \in BOOLEAN : services_create_stage(stage, fault)
    \/ \E result \in ServiceResults, fault \in BOOLEAN :
          services_create_result(result, fault)
    \/ \E id \in StageIds, data \in NameUpdates, fault \in BOOLEAN :
          services_update_stage(id, data, fault)
    \/ \E id \in ResultIds, data \in StageRefUpdates, fault \in BOOLEAN :
          services_update_result(id, data, fault)
    \/ \E id \in StageIds, fault \in BOOLEAN : services_delete_stage(id, fault)
    \/ \E id \in ResultIds, fault \in BOOLEAN : services_delete_result(id, fault)

SpecServices == Init /\ [][NextServices]_vars

\* creation bodies with and without the attributes the ORM models declare
\* nullable
StageBodies == {Omit(st, o) : st \in StageCreate, o \in SUBSET {"attendance"}}
ResultBodies == {Omit(r, o) : r \in CrudResults, o \in SUBSET {"pit_stops", "position"}}

\* creation over HTTP
NextCreate ==
    \/ \E body \in StageBodies : post_stages(body)
    \/ \E stable \in OneStable : create_stable(stable)
    \/ \E body \in ResultBodies : post_results(body)
    \/ \E id \in ResultIds : get_result(id)

SpecCreate == Init /\ [][NextCreate]_vars

\* a Result creation next to deletions of the rows it references
NextRace ==
    \/ \E stage \in OneStage : create_stage(stage)
    \/ \E stable \in OneStable : create_stable(stable)
    \/ \E result \in CrudResults : create_result_check_stable(result)
    \/ create_result_check_stage
    \/ create_result_commit
    \/ \E id \in StageIds : delete_stage_select(id)
    \/ delete_stage_commit
    \/ \E id \in StableIds : delete_stable_select(id)
    \/ delete_stable_commit

SpecRace == Init /\ [][NextRace]_vars

\* a bulk laps update next to Result creations
NextBulkRace ==
    \/ \E stage \in OneStage : create_stage(stage)
    \/ \E stable \in OneStable : create_stable(stable)
    \/ \E result \in LapsResults : create_result(result)
    \/ \E t \in Thresholds, l \in LapCounts : update_laps_select(t, l)
    \/ update_laps_commit

SpecBulkRace == Init /\ [][NextBulkRace]_vars

(***************************************************************************)
(* Properties.                                                             *)
(***************************************************************************)
References(r, col, table) == \E s \in table : r[col] = Val(s.id)

\* C1: a Result creation whose stable_id or stage_id names no existing row
\* answers 400 and writes nothing: stages, stables and results are unchanged.
C1_InvalidReferenceNoWrite ==
    [][\A result \in ResultCreate :
          (/\ create_result(result)
           /\ ~ (References(result, "stable_id", stables)
                 /\ References(result, "stage_id", stages)))
          => /\ resp'.status = 400
             /\ resp'.rows = <<>>
             /\ UNCHANGED <<stages, stables, results>>]_vars

\* a creation was refused for its stage_id although its stable_id is valid and
\* rows are stored in all three tables
C1_Witness ==
    /\ resp.op = "create_result"
    /\ resp.status = 400
    /\ resp.ret = "Invalid stage_id"
    /\ stages # {} /\ stables # {} /\ results # {}

\* C2: the identifier a Stage or Stable creation returns is held by no stored
\* row and was never assigned before (also not to a row deleted since), and no
\* step changes the identifier of a stored row: a table's identifiers after a
\* step are those before it, less a deleted one, plus the newly assigned one,
\* and each identifies one row.
C2_FreshImmutableIds ==
    [][/\ \A stage \in StageCreate :
             (create_stage(stage) /\ resp'.ret = "row")
             => /\ resp'.rows[1].id \notin assigned.stages
                /\ resp'.rows[1].id \notin IdsOf(stages)
                /\ IdsOf(stages') = IdsOf(stages) \cup {resp'.rows[1].id}
       /\ \A stable \in StableCreate :
             (create_stable(stable) /\ resp'.ret = "row")
             => /\ resp'.rows[1].id \notin assigned.stables
                /\ resp'.rows[1].id \notin IdsOf(stables)
                /\ IdsOf(stables') = IdsOf(stables) \cup {resp'.rows[1].id}
       /\ resp'.op = "update_stage" => IdsOf(stages') = IdsOf(stages)
       /\ resp'.op = "update_stable" => IdsOf(stables') = IdsOf(stables)
       /\ IdsOf(stages') \subseteq IdsOf(stages) \cup (assigned'.stages \ assigned.stages)
       /\ IdsOf(stables') \subseteq IdsOf(stables) \cup (assigned'.stables \ assigned.stables)
       /\ PrimaryKeyOk(stages') /\ PrimaryKeyOk(stables')]_vars

\* a Stage was created after an earlier Stage had been deleted
C2_Witness ==
    /\ resp.op = "create_stage"
    /\ resp.ret = "row"
    /\ \E id \in assigned.stages : id \notin IdsOf(stages) /\ id < resp.rows[1].id

\* C3: getById on the identifier a Stage or Stable creation returned, with no
\* update or delete of that row in between, answers 200 with a record equal in
\* every field to the record the creation returned.
C3_CreateGetRoundTrip ==
    [][/\ \A id \in StageIds :
             (get_stage(id) /\ id \in IdsOf(returned.stages))
             => /\ resp'.status = 200
                /\ Range(resp'.rows) = {r \in returned.stages : r.id = id}
       /\ \A id \in StableIds :
             (get_stable(id) /\ id \in IdsOf(returned.stables))
             => /\ resp'.status = 200
                /\ Range(resp'.rows) = {r \in returned.stables : r.id = id}]_vars

\* a Stage was read back while a second Stage is stored and its creation record
\* is the one remembered
C3_Witness ==
    /\ resp.op = "get_stage"
    /\ resp.status = 200
    /\ Range(resp.rows) \subseteq returned.stages
    /\ Cardinality(stages) = 2

\* C4 as claimed: deleting a Stage that Results reference removes the Stage,
\* returns true and leaves the Results stored with their stage reference.
C4_DeleteReferencedStageAllowed ==
    [][\A id \in StageIds :
          (/\ delete_stage(id)
           /\ id \in IdsOf(stages)
           /\ \E r \in results : r.stage_id = Val(id))
          => /\ resp'.ret = "True"
             /\ id \notin IdsOf(stages')
             /\ results' = results]_vars

\* C4 (amended): deleting a Stage that Results reference is refused by the
\* store (results.stage_id is a NOT NULL foreign key): delete returns false,
\* the Stage stays, and the Results keep their stage reference, which still
\* resolves.
C4_DeleteReferencedStageRefused ==
    [][\A id \in StageIds :
          (/\ delete_stage(id)
           /\ id \in IdsOf(stages)
           /\ \E r \in results : r.stage_id = Val(id))
          => /\ resp'.ret = "False"
             /\ UNCHANGED <<stages, stables, results>>
             /\ \A r \in results' : References(r, "stage_id", stages')]_vars

\* the delete of a stored Stage that a Result references has returned false
C4_Witness ==
    /\ resp.op = "delete_stage"
    /\ resp.ret = "False"
    /\ resp.args[1] \in IdsOf(stages)
    /\ \E r \in results : r.stage_id = Val(resp.args[1])

RowOf(table, id) == CHOOSE r \in table : r.id = id

\* C5: updateLapsAboveThreshold(t, L) sets laps = L on exactly the Results
\* with race_time > t; a Result with race_time <= t keeps its laps, every other
\* field of every Result is unchanged, no Result is added or removed, and
\* stages and stables are unchanged.
C5_LapsUpdateFrame ==
    [][resp'.op = "update_laps" =>
          LET t == resp'.args[1]
              L == resp'.args[2]
          IN /\ IdsOf(results') = IdsOf(results)
             /\ Cardinality(results') = Cardinality(results)
             /\ \A r \in results :
                   LET after == RowOf(results', r.id)
                   IN /\ after.laps = IF r.race_time[1] > t THEN Val(L) ELSE r.laps
                      /\ \A f \in (DOMAIN r) \ {"laps"} : after[f] = r[f]
             /\ UNCHANGED <<stages, stables>>]_vars

\* after a bulk update a Result whose race_time equals the threshold holds
\* other laps than the new value, next to a Result above the threshold that
\* holds the new value
C5_Witness ==
    /\ resp.op = "update_laps"
    /\ \E r1, r2 \in results :
          /\ r1.race_time[1] = resp.args[1]
          /\ r1.laps # Val(resp.args[2])
          /\ r2.race_time[1] > resp.args[1]
          /\ r2.laps = Val(resp.args[2])

\* the Results whose stored row the step changed
Changed == {r \in results : r \notin results'}

\* C6 as claimed: the count reported by the bulk update equals the number of
\* Results the call changed.
C6_CountEqualsChanged ==
    [][resp'.op = "update_laps" => resp'.n = Cardinality(Changed)]_vars

\* C6 (amended): the count reported equals the number of Results with
\* race_time > t, the rows laps = L was set on, whether or not their laps
\* already equalled L; it equals the number of Results whose stored value
\* changed exactly when no Result with race_time > t already had laps = L.
C6_CountEqualsSelected ==
    [][resp'.op = "update_laps" =>
          LET t == resp'.args[1]
              L == resp'.args[2]
              selected == {r \in results : r.race_time[1] > t}
          IN /\ resp'.n = Cardinality(selected)
             /\ resp'.n >= Cardinality(Changed)
             /\ (resp'.n = Cardinality(Changed))
                   <=> (\A r \in selected : r.laps # Val(L))]_vars

\* a bulk update has reported a nonzero count, the number of stored Results
\* above its threshold, next to a stored Result at or below the threshold
C6_Witness ==
    /\ resp.op = "update_laps"
    /\ resp.n >= 1
    /\ resp.n = Cardinality({r \in results : r.race_time[1] > resp.args[1]})
    /\ \E r \in results : r.race_time[1] <= resp.args[1]

\* the row an update asks for: the supplied fields, the others as stored
Target(old, data) ==
    [f \in DOMAIN old |-> IF f \in data.fields_set THEN data.vals[f] ELSE old[f]]

\* C7 as claimed: update(id, partialInput) on an existing row overwrites
\* exactly the fields present (a supplied null counts as present) and leaves
\* every absent field and every other row unchanged; on a missing identifier
\* it returns None and writes nothing.
C7_UpdateOverwritesPresentFields ==
    [][/\ resp'.op = "update_stage" =>
            \A data \in StageUpdate :
               update_stage(resp'.args[1], data) =>
                  IF resp'.args[1] \in IdsOf(stages)
                  THEN LET old == RowOf(stages, resp'.args[1])
                       IN /\ stages' = (stages \ {old}) \cup {Target(old, data)}
                          /\ UNCHANGED <<stables, results>>
                  ELSE resp'.ret = "None" /\ UNCHANGED <<stages, stables, results>>
       /\ resp'.op = "update_stable" =>
            \A data \in StableUpdate :
               update_stable(resp'.args[1], data) =>
                  IF resp'.args[1] \in IdsOf(stables)
                  THEN LET old == RowOf(stables, resp'.args[1])
                       IN /\ stables' = (stables \ {old}) \cup {Target(old, data)}
                          /\ UNCHANGED <<stages, results>>
                  ELSE resp'.ret = "None" /\ UNCHANGED <<stages, stables, results>>
       /\ resp'.op = "update_result" =>
            \A data \in ResultUpdate :
               update_result(resp'.args[1], data) =>
                  IF resp'.args[1] \in IdsOf(results)
                  THEN LET old == RowOf(results, resp'.args[1])
                       IN /\ results' = (results \ {old}) \cup {Target(old, data)}
                          /\ UNCHANGED <<stages, stables>>
                  ELSE resp'.ret = "None" /\ UNCHANGED <<stages, stables, results>>]_vars

\* the constraints the store holds a row to
StageRowOk(r) == r.name # NULL /\ r.country # NULL /\ r.date # NULL /\ r.lap_length # NULL
StableRowOk(r) == r.name # NULL /\ r.country # NULL
ResultRowOk(r) ==
    /\ r.driver_name # NULL /\ r.race_time # NULL /\ r.laps # NULL
    /\ References(r, "stage_id", stages)
    /\ References(r, "stable_id", stables)

\* C7 (amended): update(id, partialInput) on an existing row overwrites
\* exactly the fields present (a supplied null counts as present), returns the
\* updated row and leaves every absent field and every other row unchanged,
\* provided the row asked for satisfies the store's constraints; when it does
\* not (a null for a NOT NULL column, a stage reference that names no Stage),
\* or when the identifier does not exist, update returns None and writes
\* nothing.
C7_UpdateOverwritesOrRollsBack ==
    [][/\ resp'.op = "update_stage" =>
            \A data \in StageUpdate :
               update_stage(resp'.args[1], data) =>
                  IF resp'.args[1] \in IdsOf(stages)
                     /\ StageRowOk(Target(RowOf(stages, resp'.args[1]), data))
                  THEN LET old == RowOf(stages, resp'.args[1])
                       IN /\ stages' = (stages \ {old}) \cup {Target(old, data)}
                          /\ resp'.rows = <<Target(old, data)>>
                          /\ UNCHANGED <<stables, results>>
                  ELSE resp'.ret = "None" /\ UNCHANGED <<stages, stables, results>>
       /\ resp'.op = "update_stable" =>
            \A data \in StableUpdate :
               update_stable(resp'.args[1], data) =>
                  IF resp'.args[1] \in IdsOf(stables)
                     /\ StableRowOk(Target(RowOf(stables, resp'.args[1]), data))
                  THEN LET old == RowOf(stables, resp'.args[1])
                       IN /\ stables' = (stables \ {old}) \cup {Target(old, data)}
                          /\ resp'.rows = <<Target(old, data)>>
                          /\ UNCHANGED <<stages, results>>
                  ELSE resp'.ret = "None" /\ UNCHANGED <<stages, stables, results>>
       /\ resp'.op = "update_result" =>
            \A data \in ResultUpdate :
               update_result(resp'.args[1], data) =>
                  IF resp'.args[1] \in IdsOf(results)
                     /\ ResultRowOk(Target(RowOf(results, resp'.args[1]), data))
                  THEN LET old == RowOf(results, resp'.args[1])
                       IN /\ results' = (results \ {old}) \cup {Target(old, data)}
                          /\ resp'.rows = <<Target(old, data)>>
                          /\ UNCHANGED <<stages, stables>>
                  ELSE resp'.ret = "None" /\ UNCHANGED <<stages, stables, results>>]_vars

\* an update has returned a Stage whose attendance it set to NULL and whose
\* name is not the created one, next to a Stable whose motor an update has set
C7_Witness ==
    /\ resp.op = "update_stage"
    /\ resp.ret = "row"
    /\ resp.rows[1].attendance = NULL
    /\ resp.rows[1].name = Val("Spa")
    /\ Cardinality(stages) = 2
    /\ \E s \in stables : s.motor # NULL

\* C8: filterByStageAndStable(s, t) returns exactly the Results whose stage
\* reference equals s and whose stable reference equals t, each once; when
\* none match (also when s or t names no row) it returns an empty list, not an
\* error.
C8_FilterExact ==
    [][resp'.op = "get_filtered_results" =>
          LET s == resp'.args[1]
              t == resp'.args[2]
              matching == {r \in results : r.stage_id = Val(s) /\ r.stable_id = Val(t)}
          IN /\ resp'.status = 200
             /\ Range(resp'.rows) = matching
             /\ Len(resp'.rows) = Cardinality(matching)
             /\ UNCHANGED <<stages, stables, results>>]_vars

\* a filter has returned one Result and left out a stored Result of the same
\* stable and another stage
C8_Witness ==
    /\ resp.op = "get_filtered_results"
    /\ resp.status = 200
    /\ Len(resp.rows) = 1
    /\ \E r \in results :
          r.stable_id = resp.rows[1].stable_id /\ r.stage_id # resp.rows[1].stage_id

IsPermutationOf(seq, rows) == Len(seq) = Cardinality(rows) /\ Range(seq) = rows

\* C9: sortedByRaceTime("asc") returns every stored Result once, in an order
\* non-decreasing in race_time, sortedByRaceTime("desc") in an order
\* non-increasing in race_time; neither changes a stored row.
C9_SortedByRaceTime ==
    [][resp'.op = "get_sorted_results" =>
          /\ resp'.args = <<"a", "s", "c">> =>
                /\ resp'.status = 200
                /\ IsPermutationOf(resp'.rows, results)
                /\ \A i \in 1..(Len(resp'.rows) - 1) :
                      resp'.rows[i].race_time[1] <= resp'.rows[i + 1].race_time[1]
          /\ resp'.args = <<"d", "e", "s", "c">> =>
                /\ resp'.status = 200
                /\ IsPermutationOf(resp'.rows, results)
                /\ \A i \in 1..(Len(resp'.rows) - 1) :
                      resp'.rows[i].race_time[1] >= resp'.rows[i + 1].race_time[1]
          /\ UNCHANGED <<stages, stables, results>>]_vars

\* a descending sort has returned the later created, slower Result first
C9_Witness ==
    /\ resp.op = "get_sorted_results"
    /\ resp.args = <<"d", "e", "s", "c">>
    /\ Len(resp.rows) = 2
    /\ resp.rows[1].race_time[1] > resp.rows[2].race_time[1]
    /\ resp.rows[1].id > resp.rows[2].id

UpperChar(ch) ==
    CASE ch = "a" -> "A"
      [] ch = "s" -> "S"
      [] ch = "c" -> "C"
      [] ch = "d" -> "D"
      [] ch = "e" -> "E"
      [] OTHER -> ch

IsCaseVariant(order, word) ==
    /\ Len(order) = Len(word)
    /\ \A i \in 1..Len(word) : order[i] \in {word[i], UpperChar(word[i])}

\* C10: sortedByRaceTime(order) accepts "asc" and "desc" in any letter case
\* and answers 400 for every other token, returning no rows and changing no
\* stored row.
C10_OrderTokens ==
    [][resp'.op = "get_sorted_results" =>
          IF \/ IsCaseVariant(resp'.args, <<"a", "s", "c">>)
             \/ IsCaseVariant(resp'.args, <<"d", "e", "s", "c">>)
          THEN resp'.status = 200 /\ Len(resp'.rows) = Cardinality(results)
          ELSE /\ resp'.status = 400
               /\ resp'.rows = <<>>
               /\ UNCHANGED <<stages, stables, results>>]_vars

\* a token in mixed case has been accepted and has returned the stored Results
C10_Witness ==
    /\ resp.op = "get_sorted_results"
    /\ resp.status = 200
    /\ resp.args = <<"D", "e", "S", "c">>
    /\ Len(resp.rows) = 2
\* C11: listWithDetails returns exactly one entry for each Result whose stage
\* reference and stable reference both resolve, carrying the Result's id,
\* driver and race time, that Stage's name and that Stable's name; a Result
\* with a reference that does not resolve has no entry, and the answer is 200.
C11_JoinExact ==
    [][resp'.op = "get_results_with_details" =>
          LET resolving == {r \in results : /\ References(r, "stage_id", stages)
                                            /\ References(r, "stable_id", stables)}
              entries == resp'.rows
          IN /\ resp'.status = 200
             /\ Len(entries) = Cardinality(resolving)
             /\ \A i \in 1..Len(entries) : entries[i].id \in IdsOf(resolving)
             /\ \A r \in resolving :
                   \E i \in 1..Len(entries) :
                      /\ entries[i].id = r.id
                      /\ entries[i].driver_name = r.driver_name
                      /\ entries[i].race_time = r.race_time
                      /\ entries[i].stage_name = RowOf(stages, r.stage_id[1]).name
                      /\ entries[i].stable_name = RowOf(stables, r.stable_id[1]).name
             /\ UNCHANGED <<stages, stables, results>>]_vars

\* the join has returned two entries, for Results of two Stages with
\* different names
C11_Witness ==
    /\ resp.op = "get_results_with_details"
    /\ Len(resp.rows) = 2
    /\ resp.rows[1].stage_name # resp.rows[2].stage_name
    /\ Cardinality(stages) = 2

\* the race times of the Results of one stage reference, added up in the
\* order of the Results' identifiers
TotalRaceTime(rs, ref) ==
    LET upTo[i \in 0..result_seq] ==
            IF i = 0 THEN 0
            ELSE upTo[i - 1]
                 + (IF \E r \in rs : r.id = i /\ r.stage_id = ref
                    THEN RowOf(rs, i).race_time[1] ELSE 0)
    IN upTo[result_seq]

\* C12: averageRaceTimePerStage returns exactly one pair per distinct stage
\* reference occurring among the stored Results, whose value is the sum of
\* race_time over that reference's Results divided by their number; a Stage
\* with no Result has no pair, and whether a pair exists does not depend on
\* the stages table.
C12_AveragePerStage ==
    [][resp'.op = "get_average_race_time_per_stage" =>
          LET refs == {r.stage_id : r \in results}
              pairs == resp'.rows
          IN /\ resp'.status = 200
             /\ Len(pairs) = Cardinality(refs)
             /\ {pairs[i].stage_id : i \in 1..Len(pairs)} = refs
             /\ \A i \in 1..Len(pairs) :
                   LET count == Cardinality({r \in results : r.stage_id = pairs[i].stage_id})
                       mean == pairs[i].avg_race_time[1]
                   IN /\ mean.den > 0
                      /\ mean.num * count = TotalRaceTime(results, pairs[i].stage_id) * mean.den
             /\ \A st \in stages :
                   (\A r \in results : r.stage_id # Val(st.id))
                   => \A i \in 1..Len(pairs) : pairs[i].stage_id # Val(st.id)
             /\ UNCHANGED <<stages, stables, results>>]_vars

\* the averages returned are one pair, 185/2 for the two Results of one
\* Stage, while a second Stage has no Result
C12_Witness ==
    /\ resp.op = "get_average_race_time_per_stage"
    /\ Len(resp.rows) = 1
    /\ resp.rows[1].avg_race_time = Val([num |-> 185, den |-> 2])
    /\ Cardinality(stages) = 2

\* C13 as claimed: deleting an identifier that names no stored row returns
\* false and leaves the three tables unchanged; deleting an existing
\* identifier returns true and removes exactly that one row.
C13_DeleteTrueIffExists ==
    [][/\ \A id \in StageIds :
             delete_stage(id) =>
                IF id \in IdsOf(stages)
                THEN /\ resp'.ret = "True"
                     /\ stages' = stages \ {RowOf(stages, id)}
                     /\ UNCHANGED <<stables, results>>
                ELSE resp'.ret = "False" /\ UNCHANGED <<stages, stables, results>>
       /\ \A id \in StableIds :
             delete_stable(id) =>
                IF id \in IdsOf(stables)
                THEN /\ resp'.ret = "True"
                     /\ stables' = stables \ {RowOf(stables, id)}
                     /\ UNCHANGED <<stages, results>>
                ELSE resp'.ret = "False" /\ UNCHANGED <<stages, stables, results>>
       /\ \A id \in ResultIds :
             delete_result(id) =>
                IF id \in IdsOf(results)
                THEN /\ resp'.ret = "True"
                     /\ results' = results \ {RowOf(results, id)}
                     /\ UNCHANGED <<stages, stables>>
                ELSE resp'.ret = "False" /\ UNCHANGED <<stages, stables, results>>]_vars

\* C13 (amended): deleting an identifier that names no stored row returns
\* false and leaves the three tables unchanged; deleting an existing Result,
\* or an existing Stage or Stable that no Result references, returns true and
\* removes exactly that one row; deleting an existing Stage or Stable that a
\* Result references returns false and leaves the three tables unchanged.
C13_DeleteTrueIffRemovable ==
    [][/\ \A id \in StageIds :
             delete_stage(id) =>
                IF id \in IdsOf(stages) /\ \A r \in results : r.stage_id # Val(id)
                THEN /\ resp'.ret = "True"
                     /\ stages' = stages \ {RowOf(stages, id)}
                     /\ UNCHANGED <<stables, results>>
                ELSE resp'.ret = "False" /\ UNCHANGED <<stages, stables, results>>
       /\ \A id \in StableIds :
             delete_stable(id) =>
                IF id \in IdsOf(stables) /\ \A r \in results : r.stable_id # Val(id)
                THEN /\ resp'.ret = "True"
                     /\ stables' = stables \ {RowOf(stables, id)}
                     /\ UNCHANGED <<stages, results>>
                ELSE resp'.ret = "False" /\ UNCHANGED <<stages, stables, results>>
       /\ \A id \in ResultIds :
             delete_result(id) =>
                IF id \in IdsOf(results)
                THEN /\ resp'.ret = "True"
                     /\ results' = results \ {RowOf(results, id)}
                     /\ UNCHANGED <<stages, stables>>
                ELSE resp'.ret = "False" /\ UNCHANGED <<stages, stables, results>>]_vars

\* a Result that was deleted before has been deleted a second time, which
\* returned false, while another Result is stored
C13_Witness ==
    /\ resp.op = "delete_result"
    /\ resp.ret = "False"
    /\ resp.args[1] \in assigned.results
    /\ resp.args[1] \notin IdsOf(results)
    /\ results # {}

\* the three tables as committed
Committed == <<stages, stables, results>>

C15_OptionalMayBeOmitted ==
    [][/\ \A body \in ResultBodies :
             (/\ post_results(body)
              /\ References(body.vals, "stage_id", stages)
              /\ References(body.vals, "stable_id", stables))
             => /\ resp'.status = 200
                /\ \E r \in results' \ results :
                      \A f \in body.fields_set : r[f] = body.vals[f]
       /\ \A body \in StageBodies :
             post_stages(body)
             => /\ resp'.status = 201
                /\ \E r \in stages' \ stages :
                      \A f \in body.fields_set : r[f] = body.vals[f]]_vars

\* C16: in every reachable state, under every interleaving of a Result
\* creation (stable check, stage check, insert and commit) with deletions of
\* the Stage or Stable it references, every committed Result has a stage_id
\* and a stable_id that name a stored Stage and a stored Stable.
C16_ReferentialIntegrity ==
    \A r \in results :
        References(r, "stage_id", stages) /\ References(r, "stable_id", stables)

\* a Result creation passed both checks and then failed at its commit: the
\* Stage it names was deleted in between and is not stored
C16_Witness ==
    /\ resp.op = "create_result"
    /\ resp.ret = "IntegrityError"
    /\ stages = {}
    /\ stables # {}
    /\ result_seq = 1

\* C17: a bulk laps update that creations overtake between its select and its
\* commit modifies and counts only the rows its select returned: the select
\* returns the Results with race_time > t stored when it runs; at the commit
\* every one of them ends with laps = L and nothing else changed, every other
\* Result (also one created in between with race_time > t) stays as it is,
\* and the count reported is the number of rows the select returned.
C17_BulkUpdateOwnRows ==
    [][/\ (inflight.laps = <<>> /\ inflight'.laps # <<>>)
          => inflight'.laps[1].results_to_update
                = {r \in results : r.race_time[1] > inflight'.laps[1].race_time_threshold}
       /\ (inflight.laps # <<>> /\ inflight'.laps # <<>>)
          => inflight'.laps = inflight.laps
       /\ (inflight.laps # <<>> /\ inflight'.laps = <<>>)
          => LET selected == IdsOf(inflight.laps[1].results_to_update)
                 L == inflight.laps[1].new_laps
             IN /\ resp'.status = 200
                /\ resp'.n = Cardinality(selected)
                /\ IdsOf(results') = IdsOf(results)
                /\ \A r \in results :
                      IF r.id \in selected
                      THEN RowOf(results', r.id) = [r EXCEPT !.laps = Val(L)]
                      ELSE r \in results']_vars

\* a bulk update has reported one row, and a Result above its threshold,
\* created after its select, holds other laps than the new value
C17_Witness ==
    /\ resp.op = "update_laps"
    /\ resp.n = 1
    /\ inflight.laps = <<>>
    /\ Cardinality(results) = 2
    /\ \A r \in results : r.race_time[1] > resp.args[1]
    /\ \E r \in results : r.laps # Val(resp.args[2])
====
